---- MODULE Spec2Model ----
(***************************************************************************)
(* A model of the CouchDB client of node-couchdb-client.                   *)
(*                                                                         *)
(* JavaScript strings that are built from caller input (database names,   *)
(* document ids, paths, uris) are sequences of tokens: one token per       *)
(* character of a caller-supplied part, one token per literal chunk of a   *)
(* template.  JavaScript values held by a promise are records.             *)
(***************************************************************************)
EXTENDS Integers, Sequences, FiniteSets, TLC

\* ------------------------------------------------------------------ bounds
MaxNameLen == 2     \* longest database name handed to createDatabase
MaxCalls == 2       \* public-method invocations in one behaviour
MaxTime == 1        \* largest value of the clock read by Date.now()
MaxInFlight == 2    \* gateway calls in flight at once

\* -------------------------------------------------------------------- state
VARIABLES
    client,     \* the fields of the constructed client
    connection, \* the options object of the caller, before and after construction
    call,       \* the public-method call under way or last finished
    now,        \* the clock Date.now() reads
    nCalls,     \* public-method invocations so far
    nGatewayCalls, \* invocations of CouchDb.request so far
    nRequests,  \* invocations of the transport so far
    nLogs,      \* records written by console.info so far
    probe,      \* argument and result of a status-message lookup
    query,      \* argument and result of a query-string composition
    calls       \* the gateway calls in flight at once, by slot

vars == <<client, connection, call, now, nCalls, nGatewayCalls, nRequests, nLogs, probe, query, calls>>

\* ------------------------------------------------------- JavaScript values
\* the value undefined where a string is expected
Undefined == <<"<undefined>">>

\* the value undefined where a status code (a number) is expected
undefinedStatus == -1

\* what a template literal `${s}` makes of s
TemplateString(s) == IF s = Undefined THEN <<"undefined">> ELSE s

\* truthiness of a string-or-undefined: undefined and '' are falsy
Truthy(s) == s # Undefined /\ s # <<>>

\* a || b on strings
OrElse(a, b) == IF Truthy(a) THEN a ELSE b

\* o.k of an object literal that may lack the key
Has(o, k) == k \in DOMAIN o

\* Object.assign({}, a, b): the keys of both, b winning on a collision
ObjectAssign(a, b) ==
    [k \in (DOMAIN a) \cup (DOMAIN b) |-> IF k \in DOMAIN b THEN b[k] ELSE a[k]]

\* characters database names, document ids and revisions are drawn from
Alphabet == {"a", "T", "1", "$"}

Lower == {"a"}
Digit == {"1"}

\* encodeURIComponent keeps A-Z a-z 0-9 - _ . ! ~ * ' ( ) and escapes the rest
Unreserved == {"a", "T", "1"}

EscapeOf(c) == IF c = "$" THEN <<"%", "2", "4">> ELSE <<c>>

RECURSIVE encodeURIComponent(_)
encodeURIComponent(s) ==
    IF s = Undefined THEN <<"undefined">>
    ELSE IF s = <<>> THEN <<>>
    ELSE (IF Head(s) \in Unreserved THEN <<Head(s)>> ELSE EscapeOf(Head(s)))
            \o encodeURIComponent(Tail(s))

\* all strings over Alphabet of length at most n
RECURSIVE StringsUpTo(_)
StringsUpTo(n) ==
    IF n = 0 THEN {<<>>}
    ELSE LET shorter == StringsUpTo(n - 1)
         IN  shorter \cup {Append(s, c) : s \in shorter, c \in Alphabet}

\* ------------------------------------------------------ status messages
\* the entries of Node's http.STATUS_CODES for the codes the client names
STATUS_CODES ==
    (200 :> "OK") @@ (201 :> "Created") @@ (202 :> "Accepted")
    @@ (304 :> "Not Modified") @@ (400 :> "Bad Request")
    @@ (401 :> "Unauthorized") @@ (403 :> "Forbidden")
    @@ (404 :> "Not Found") @@ (409 :> "Conflict")
    @@ (412 :> "Precondition Failed") @@ (417 :> "Expectation Failed")
    @@ (500 :> "Internal Server Error")

\* a status table passed as undefined: Object.assign skips it
NoTable == <<>>

\* CouchDb.statusCode: codes[status] || 'unknown status'
statusCode(statusCodes, status) ==
    LET codes == ObjectAssign(STATUS_CODES, statusCodes)
    IN  IF status \in DOMAIN codes /\ codes[status] # ""
        THEN codes[status] ELSE "unknown status"

\* ------------------------------------------------------------ construction
\* options.auth when the caller gave none
NoAuth == [undefined |-> TRUE]

\* the option objects handed to the constructor
ConnectionOptions ==
    { <<>>,
      [defaultDatabase |-> <<"a">>],
      [host |-> "https://couchdb.example.com", port |-> 1433,
       auth |-> [username |-> "admin", password |-> "password"],
       logging |-> TRUE, defaultDatabase |-> <<"a">>] }

\* new CouchDb(options)
CouchDb(options) ==
    [cls |-> "CouchDb",
     host |-> IF Has(options, "host") /\ options.host # ""
              THEN options.host ELSE "http://127.0.0.1",
     port |-> IF Has(options, "port") /\ options.port # 0
              THEN options.port ELSE 5984,
     auth |-> IF Has(options, "auth") THEN options.auth ELSE NoAuth,
     logging |-> IF Has(options, "logging") THEN options.logging ELSE FALSE,
     defaultDatabase |-> IF Has(options, "defaultDatabase")
                         THEN options.defaultDatabase ELSE Undefined]

\* new CouchDBAdmin(options): `options.port = 5984` is an assignment, and the
\* class has no defaultDatabase
CouchDBAdmin(options) ==
    [cls |-> "CouchDBAdmin",
     host |-> IF Has(options, "host") /\ options.host # ""
              THEN options.host ELSE "http://127.0.0.1",
     port |-> 5984,
     auth |-> IF Has(options, "auth") THEN options.auth ELSE NoAuth,
     logging |-> IF Has(options, "logging") THEN options.logging ELSE FALSE,
     defaultDatabase |-> Undefined]

\* the caller's options object once new CouchDb(options) has returned: the
\* constructor only reads it
CouchDb_options(options) == options

\* the caller's options object once new CouchDBAdmin(options) has returned:
\* `this.port = options.port = 5984` wrote to it
CouchDBAdmin_options(options) == ObjectAssign(options, [port |-> 5984])

\* `${this.port}`
PortString(p) == IF p = 5984 THEN "5984" ELSE IF p = 1433 THEN "1433" ELSE "0"

\* ----------------------------------------------------------------- gateway
BaselineHeaders ==
    [k \in {"user-agent", "accept"} |->
        IF k = "user-agent" THEN <<"couchdb-promises">> ELSE <<"application/json">>]

\* requestOptions.body when the descriptor has no postData
NoBody == [undefined |-> TRUE]

defaultRequestOptions_Shared(self) ==
    LET started == {i \in DOMAIN calls : calls[i].transport # "none"}
        uriSoFar ==
            IF started = {} THEN <<self.host, ":", PortString(self.port)>>
            ELSE LET last == CHOOSE i \in started : \A j \in started :
                                Len(calls[i].requestOptions.uri)
                                    >= Len(calls[j].requestOptions.uri)
                 IN  calls[last].requestOptions.uri
    IN  [uri |-> uriSoFar,
         auth |-> self.auth,
         method |-> "GET",
         json |-> TRUE,
         headers |-> BaselineHeaders,
         resolveWithFullResponse |-> TRUE]

\* get defaultRequestOptions(): a new object on every read
defaultRequestOptions(self) ==
    [uri |-> <<self.host, ":", PortString(self.port)>>,
     auth |-> self.auth,
     method |-> "GET",
     json |-> TRUE,
     headers |-> BaselineHeaders,
     resolveWithFullResponse |-> TRUE]

\* a header value that compares greater than 0: a non-empty string of digits
PositiveNumber(v) == v # <<>> /\ \A i \in 1..Len(v) : v[i] \in Digit

\* options.headers && options.headers.length > 0: `length` is looked up as a
\* key of the header object, and undefined > 0 is false
HeadersGiven(options) ==
    /\ Has(options, "headers")
    /\ Has(options.headers, "length")
    /\ PositiveNumber(options.headers["length"])

\* the first lines of CouchDb.request: the options handed to the transport
buildRequestOptions(self, options) ==
    LET d == defaultRequestOptions(self)
    IN  [d EXCEPT
          !.method = IF Has(options, "method") THEN options.method ELSE d.method,
          !.uri = d.uri \o <<"/">> \o
                  TemplateString(IF Has(options, "path") THEN options.path ELSE Undefined),
          !.headers = IF HeadersGiven(options)
                      THEN ObjectAssign(d.headers, options.headers)
                      ELSE d.headers]
        @@ [body |-> IF Has(options, "postData") THEN options.postData ELSE NoBody]

\* ---------------------------------------------------------------- promises
NoValue == [none |-> TRUE]

Pending == [state |-> "pending", value |-> NoValue, settles |-> 0]

\* resolve(v) / reject(v) of a promise: the first call decides, every call counts
resolve(p, v) ==
    IF p.state = "pending"
    THEN [state |-> "resolved", value |-> v, settles |-> p.settles + 1]
    ELSE [p EXCEPT !.settles = @ + 1]

reject(p, v) ==
    IF p.state = "pending"
    THEN [state |-> "rejected", value |-> v, settles |-> p.settles + 1]
    ELSE [p EXCEPT !.settles = @ + 1]

\* Promise.reject(v)
PromiseReject(v) == reject(Pending, v)

\* ---------------------------------------------------------------- transport
\* what request-promise resolves with under resolveWithFullResponse
Bodies == { [json |-> "ok"], [json |-> "doc"] }

Responses == { [statusCode |-> 200, headers |-> "content-type", body |-> b] : b \in Bodies }

\* statuses a failed request carries
ErrorStatuses == {404, 500, 999}

\* what the transport rejects with: an error carrying the status of the
\* response, an error without one, or no error object at all
Errors ==
    { [name |-> "StatusCodeError", statusCode |-> s] : s \in ErrorStatuses }
    \cup { [name |-> "RequestError"], [name |-> "null"], [name |-> "undefined"] }

\* what the transport throws when it is invoked
ThrownByTransport == [name |-> "TypeError"]

Nullish(error) == error.name \in {"null", "undefined"}

\* error.statusCode
StatusOf(error) == IF Has(error, "statusCode") THEN error.statusCode ELSE undefinedStatus

\* options.statusCodes
TableOf(options) == IF Has(options, "statusCodes") THEN options.statusCodes ELSE NoTable

\* ------------------------------------------------------------ query strings
\* an object argument the caller left out
UndefinedObject == [undefined |-> TRUE]

\* the values a query mapping holds: a string, a boolean, an array of
\* strings, or undefined
Str(s) == [str |-> s]
Bool(b) == [bool |-> b]
Arr(items) == [arr |-> items]
UndefinedValue == [undef |-> TRUE]

\* the value a parsed query string holds for a key written without `=`
NullValue == [null |-> TRUE]

\* the query parameter names used here, in the order stringify sorts them
QueryKeys == <<"conflicts", "key", "keys", "rev">>

\* CouchDBAdmin.QUERY_KEYS_JSON
QUERY_KEYS_JSON == {"key", "keys", "startkey", "endkey"}

\* the characters the encoder of query-string escapes, with their escapes
Escapes ==
    [c \in {"$", "&", "=", "\"", "[", "]", ","} |->
        CASE c = "$" -> <<"%", "2", "4">>
          [] c = "&" -> <<"%", "2", "6">>
          [] c = "=" -> <<"%", "3", "D">>
          [] c = "\"" -> <<"%", "2", "2">>
          [] c = "[" -> <<"%", "5", "B">>
          [] c = "]" -> <<"%", "5", "D">>
          [] c = "," -> <<"%", "2", "C">>]

RECURSIVE encode(_)
encode(s) ==
    IF s = <<>> THEN <<>>
    ELSE (IF Head(s) \in DOMAIN Escapes THEN Escapes[Head(s)] ELSE <<Head(s)>>)
            \o encode(Tail(s))

\* the character a %XX escape stands for
Unescape(esc) ==
    IF \E c \in DOMAIN Escapes : Escapes[c] = esc
    THEN <<CHOOSE c \in DOMAIN Escapes : Escapes[c] = esc>>
    ELSE esc

\* decodeURIComponent
RECURSIVE decode(_)
decode(s) ==
    IF s = <<>> THEN <<>>
    ELSE IF Head(s) = "%" /\ Len(s) >= 3
         THEN Unescape(SubSeq(s, 1, 3)) \o decode(SubSeq(s, 4, Len(s)))
         ELSE <<Head(s)>> \o decode(Tail(s))

\* pieces.join(sep)
RECURSIVE join(_, _)
join(pieces, sep) ==
    IF pieces = <<>> THEN <<>>
    ELSE IF Len(pieces) = 1 THEN pieces[1]
    ELSE pieces[1] \o <<sep>> \o join(Tail(pieces), sep)

\* s.split(sep): the stretches of s between the occurrences of sep
split(s, sep) ==
    LET at == {i \in 1..Len(s) : s[i] = sep}
        bound(j) == IF j = 0 THEN 0
                    ELSE IF j > Cardinality(at) THEN Len(s) + 1
                    ELSE CHOOSE i \in at : Cardinality({k \in at : k < i}) = j - 1
    IN  [j \in 1..(Cardinality(at) + 1) |-> SubSeq(s, bound(j - 1) + 1, bound(j) - 1)]

\* String(value) of a string or a boolean
StringOf(value) ==
    IF Has(value, "bool") THEN <<IF value.bool THEN "true" ELSE "false">>
    ELSE value.str

RECURSIVE quoted(_)
quoted(items) ==
    IF items = <<>> THEN <<>>
    ELSE << <<"\"">> \o Head(items) \o <<"\"">> >> \o quoted(Tail(items))

\* JSON.stringify(value); of undefined it is undefined
JSONstringify(value) ==
    IF Has(value, "str") THEN Str(<<"\"">> \o value.str \o <<"\"">>)
    ELSE IF Has(value, "bool") THEN Str(StringOf(value))
    ELSE IF Has(value, "arr") THEN Str(<<"[">> \o join(quoted(value.arr), ",") \o <<"]">>)
    ELSE UndefinedValue

\* the key=value pieces stringify makes of one key: none for undefined, one
\* for each element of an array, else one
RECURSIVE arrayPieces(_, _)
arrayPieces(key, items) ==
    IF items = <<>> THEN <<>>
    ELSE << <<key, "=">> \o encode(Head(items)) >> \o arrayPieces(key, Tail(items))

piecesOf(key, value) ==
    IF Has(value, "undef") THEN <<>>
    ELSE IF Has(value, "arr") THEN arrayPieces(key, value.arr)
    ELSE << <<key, "=">> \o encode(StringOf(value)) >>

RECURSIVE piecesFrom(_, _)
piecesFrom(queryObj, i) ==
    IF i > Len(QueryKeys) THEN <<>>
    ELSE (IF QueryKeys[i] \in DOMAIN queryObj
          THEN piecesOf(QueryKeys[i], queryObj[QueryKeys[i]]) ELSE <<>>)
         \o piecesFrom(queryObj, i + 1)

\* querystring.stringify(obj) of query-string: key=value pieces, keys sorted,
\* values encoded, joined by &
stringify(queryObj) == join(piecesFrom(queryObj, 1), "&")

\* Object.keys(undefined) throws a TypeError
KeysThrow(queryObj) == queryObj = UndefinedObject

createQueryString_AlwaysMark(queryObj) == <<"?">> \o stringify(queryObj)

\* CouchDb.createQueryString, for an argument Object.keys accepts
createQueryString(queryObj) ==
    IF DOMAIN queryObj # {} THEN <<"?">> \o stringify(queryObj) ELSE <<>>

\* CouchDBAdmin.createQueryString: Object.assign({}, undefined) is {}
Admin_createQueryString(queryObj) ==
    LET given == IF queryObj = UndefinedObject THEN <<>> ELSE queryObj
        obj == [k \in DOMAIN given |->
                 IF k \in QUERY_KEYS_JSON THEN JSONstringify(given[k]) ELSE given[k]]
    IN  IF DOMAIN obj # {} THEN <<"?">> \o stringify(obj) ELSE <<>>

\* the accumulating step of querystring.parse: the first value of a key is
\* kept as it is, a later one makes an array
RECURSIVE parseFrom(_, _)
parseFrom(params, acc) ==
    IF params = <<>> THEN acc
    ELSE LET p == Head(params)
             key == IF p = <<>> THEN "" ELSE p[1]
             value == IF Len(p) >= 2 THEN Str(decode(SubSeq(p, 3, Len(p)))) ELSE NullValue
             itemOf(v) == IF Has(v, "str") THEN <<v.str>> ELSE <<>>
             sofar == IF key \in DOMAIN acc
                      THEN (IF Has(acc[key], "arr") THEN acc[key].arr ELSE itemOf(acc[key]))
                      ELSE <<>>
             entry == IF key \in DOMAIN acc THEN Arr(sofar \o itemOf(value)) ELSE value
         IN  parseFrom(Tail(params), ObjectAssign(acc, [k \in {key} |-> entry]))

\* querystring.parse(str): the leading ? is dropped, the rest split on & and
\* each piece on its first =
parse(str) ==
    LET input == IF str # <<>> /\ Head(str) = "?" THEN Tail(str) ELSE str
    IN  IF input = <<>> THEN <<>> ELSE parseFrom(split(input, "&"), <<>>)

\* ---------------------------------------------------- what a method call does
\* return Promise.reject(reason)
Rejects(reason) == [kind |-> "reject", reason |-> [str |-> reason]]

\* return this.request(options)
Requests(options) == [kind |-> "request", options |-> options]

\* return new Promise(... this.request(options).then(...).catch(...))
ChecksExistence(options) == [kind |-> "exists", options |-> options]

\* an exception leaves the method before it returns
Throws(name) == [kind |-> "throw", error |-> [name |-> name]]

NoDB == "No DB specified. Set defaultDatabase or specify one"

InvalidDBName ==
    "Invalid DB Name: http://docs.couchdb.org/en/latest/api/database/common.html#put--db"

InvalidIds == "Invalid docId or newDocId"

\* dbName.match('^[a-z][a-z0-9_$()+/-]*$'), on the characters of Alphabet
MatchesNamePattern(dbName) ==
    /\ dbName # <<>>
    /\ dbName[1] \in Lower
    /\ \A i \in 2..Len(dbName) : dbName[i] \in Lower \cup Digit \cup {"$"}

\* ------------------------------------------------------- methods of CouchDb
getInfo(self) ==
    Requests([statusCodes |-> (200 :> "OK - Request completed successfully")])

getDatabases(self) ==
    Requests([path |-> <<"_all_dbs">>,
              statusCodes |->
                (200 :> "OK - Request completed successfully")
                @@ (401 :> "Unauthorized - CouchDB Server Administrator privileges required")])

getDatabase(self, dbName) ==
    LET db == OrElse(dbName, self.defaultDatabase)
    IN  IF ~Truthy(db) THEN Rejects(NoDB)
        ELSE Requests([path |-> encodeURIComponent(db),
              statusCodes |->
                (200 :> "OK - Request completed successfully")
                @@ (401 :> "Unauthorized - CouchDB Server Administrator privileges required")
                @@ (404 :> "Not Found - Requested database not found")])

createDatabase_NoValidation(self, dbName) ==
    LET db == OrElse(dbName, self.defaultDatabase)
    IN  IF ~Truthy(db) THEN Rejects(NoDB)
        ELSE Requests([path |-> encodeURIComponent(db),
              method |-> "PUT",
              statusCodes |->
                (201 :> "Created - Database created successfully")
                @@ (400 :> "Bad Request - Invalid database name")
                @@ (401 :> "Unauthorized - CouchDB Server Administrator privileges required")
                @@ (412 :> "Precondition Failed - Database already exists")])

createDatabase(self, dbName) ==
    LET db == OrElse(dbName, self.defaultDatabase)
    IN  IF ~Truthy(db) THEN Rejects(NoDB)
        ELSE IF ~MatchesNamePattern(db) THEN Rejects(InvalidDBName)
        ELSE Requests([path |-> encodeURIComponent(db),
              method |-> "PUT",
              statusCodes |->
                (201 :> "Created - Database created successfully")
                @@ (400 :> "Bad Request - Invalid database name")
                @@ (401 :> "Unauthorized - CouchDB Server Administrator privileges required")
                @@ (412 :> "Precondition Failed - Database already exists")])

checkDatabaseExists(self, dbName) ==
    LET db == OrElse(dbName, self.defaultDatabase)
    IN  IF ~Truthy(db) THEN Rejects(NoDB)
        ELSE ChecksExistence([path |-> encodeURIComponent(db),
              method |-> "HEAD",
              statusCodes |->
                (200 :> "OK - Database exists")
                @@ (401 :> "Unauthorized - CouchDB Server Administrator privileges required")
                @@ (404 :> "Not Found - Requested database not found")])

deleteDatabase(self, dbName) ==
    LET db == OrElse(dbName, self.defaultDatabase)
    IN  IF ~Truthy(db) THEN Rejects(NoDB)
        ELSE Requests([path |-> encodeURIComponent(db),
              method |-> "DELETE",
              statusCodes |->
                (200 :> "OK - Database removed successfully")
                @@ (400 :> "Bad Request - Invalid database name or forgotten document id by accident")
                @@ (401 :> "Unauthorized - CouchDB Server Administrator privileges required")
                @@ (404 :> "Not Found - Database doesn't exist")])

updateDatabaseSecurity(self, options) ==
    LET db == OrElse(options.dbName, self.defaultDatabase)
    IN  IF ~Truthy(db) THEN Rejects(NoDB)
        ELSE Requests([path |-> encodeURIComponent(db) \o <<"/_security">>,
              method |-> "PUT",
              postData |-> [admins |-> options.admins, members |-> options.members],
              statusCodes |->
                (200 :> "OK - Security updated")
                @@ (401 :> "Unauthorized - CouchDB Server Administrator privileges required")])

\* [...options.roles] throws a TypeError when roles is undefined
createUser(self, options) ==
    IF options.roles = Undefined THEN Throws("TypeError")
    ELSE Requests([path |-> <<"_users">>,
              method |-> "POST",
              postData |-> [_id |-> <<"org.couchdb.user:">> \o TemplateString(options.username),
                            name |-> options.username,
                            type |-> "user",
                            roles |-> options.roles,
                            password |-> options.password],
              statusCodes |->
                (201 :> "Created New User")
                @@ (400 :> "Bad Request - Invalid request")
                @@ (401 :> "Unauthorized - CouchDB Server Administrator privileges required")
                @@ (500 :> "Internal Server Error - Query execution error")])

findDocuments(self, options) ==
    LET db == OrElse(options.dbName, self.defaultDatabase)
    IN  IF ~Truthy(db) THEN Rejects(NoDB)
        ELSE Requests([path |-> encodeURIComponent(db) \o <<"/_find">>,
              method |-> "POST",
              postData |-> options.findOptions,
              statusCodes |->
                (200 :> "OK - Request completed successfully")
                @@ (400 :> "Bad Request - Invalid request")
                @@ (401 :> "Unauthorized - Read permission required")
                @@ (500 :> "Internal Server Error - Query execution error")])

getDocuments(self, options) ==
    LET db == OrElse(options.dbName, self.defaultDatabase)
    IN  IF ~Truthy(db) THEN Rejects(NoDB)
        ELSE IF KeysThrow(options.options) THEN Throws("TypeError")
        ELSE Requests([path |-> encodeURIComponent(db) \o <<"/_all_docs">>
                                 \o createQueryString(options.options),
              statusCodes |->
                (200 :> "OK - Request completed successfully")
                @@ (401 :> "Unauthorized - Read privilege required")])

getDocument_DefaultFirst(self, options) ==
    LET db == OrElse(self.defaultDatabase, options.dbName)
    IN  IF ~Truthy(db) THEN Rejects(NoDB)
        ELSE IF KeysThrow(options.options) THEN Throws("TypeError")
        ELSE Requests([path |-> encodeURIComponent(db) \o <<"/">>
                                 \o encodeURIComponent(options.docId)
                                 \o createQueryString(options.options),
              statusCodes |->
                (200 :> "OK - Request completed successfully")
                @@ (304 :> "Not Modified - Document wasn't modified since specified revision")
                @@ (400 :> "Bad Request - The format of the request or revision was invalid")
                @@ (401 :> "Unauthorized - Read privilege required")
                @@ (404 :> "Not Found - Document not found")])

getDocument(self, options) ==
    LET db == OrElse(options.dbName, self.defaultDatabase)
    IN  IF ~Truthy(db) THEN Rejects(NoDB)
        ELSE IF KeysThrow(options.options) THEN Throws("TypeError")
        ELSE Requests([path |-> encodeURIComponent(db) \o <<"/">>
                                 \o encodeURIComponent(options.docId)
                                 \o createQueryString(options.options),
              statusCodes |->
                (200 :> "OK - Request completed successfully")
                @@ (304 :> "Not Modified - Document wasn't modified since specified revision")
                @@ (400 :> "Bad Request - The format of the request or revision was invalid")
                @@ (401 :> "Unauthorized - Read privilege required")
                @@ (404 :> "Not Found - Document not found")])

checkDocumentExists(self, options) ==
    LET db == OrElse(options.dbName, self.defaultDatabase)
    IN  IF ~Truthy(db) THEN Rejects(NoDB)
        ELSE ChecksExistence([path |-> encodeURIComponent(db) \o <<"/">>
                                 \o encodeURIComponent(options.docId),
              method |-> "HEAD",
              statusCodes |->
                (200 :> "OK - Document exists")
                @@ (304 :> "Not Modified - Document wasn't modified since specified revision")
                @@ (401 :> "Unauthorized - Read privilege required")
                @@ (404 :> "Not Found - Document not found")])

\* the status table shared by copyDocument, createDocument with an id and
\* createDesignDocument
StoredStatusCodes ==
    (201 :> "Created - Document created and stored on disk")
    @@ (202 :> "Accepted - Document data accepted, but not yet stored on disk")
    @@ (400 :> "Bad Request - Invalid request body or parameters")
    @@ (401 :> "Unauthorized - Write privileges required")
    @@ (404 :> "Not Found - Specified database or document ID doesn't exists")
    @@ (409 :> "Conflict - Document with the specified ID already exists or specified revision is not latest for target document")

copyDocument_NoIdCheck(self, options) ==
    LET db == OrElse(options.dbName, self.defaultDatabase)
    IN  IF ~Truthy(db) THEN Rejects(NoDB)
        ELSE Requests([path |-> encodeURIComponent(db) \o <<"/">>
                                 \o encodeURIComponent(options.docId),
              method |-> "COPY",
              headers |-> [Destination |-> options.newDocId],
              statusCodes |-> StoredStatusCodes])

copyDocument(self, options) ==
    LET db == OrElse(options.dbName, self.defaultDatabase)
    IN  IF ~Truthy(db) THEN Rejects(NoDB)
        ELSE IF Truthy(options.docId) /\ Truthy(options.newDocId)
        THEN Requests([path |-> encodeURIComponent(db) \o <<"/">>
                                 \o encodeURIComponent(options.docId),
              method |-> "COPY",
              headers |-> [Destination |-> options.newDocId],
              statusCodes |-> StoredStatusCodes])
        ELSE Rejects(InvalidIds)

\* the status table of createDocument without an id
PostedStatusCodes ==
    (201 :> "Created - Document created and stored on disk")
    @@ (202 :> "Accepted - Document data accepted, but not yet stored on disk")
    @@ (400 :> "Bad Request - Invalid database name")
    @@ (401 :> "Unauthorized - Write privileges required")
    @@ (404 :> "Not Found - Database doesn't exists")
    @@ (409 :> "Conflict - A Conflicting Document with same ID already exists")

\* createDocument as it would be if the docId were ignored
createDocument_IgnoresDocId(self, options) ==
    LET db == OrElse(options.dbName, self.defaultDatabase)
    IN  IF ~Truthy(db) THEN Rejects(NoDB)
        ELSE Requests([path |-> encodeURIComponent(db),
              method |-> "POST",
              postData |-> options.doc,
              statusCodes |-> PostedStatusCodes])

createDocument(self, options) ==
    LET db == OrElse(options.dbName, self.defaultDatabase)
    IN  IF ~Truthy(db) THEN Rejects(NoDB)
        ELSE IF Truthy(options.docId)
        THEN Requests([path |-> encodeURIComponent(db) \o <<"/">>
                                 \o encodeURIComponent(options.docId),
              method |-> "PUT",
              postData |-> options.doc,
              headers |-> [k \in {"content-type"} |-> <<"application/json">>],
              statusCodes |-> StoredStatusCodes])
        ELSE Requests([path |-> encodeURIComponent(db),
              method |-> "POST",
              postData |-> options.doc,
              statusCodes |-> PostedStatusCodes])

createDocuments(self, options) ==
    LET db == OrElse(options.dbName, self.defaultDatabase)
    IN  IF ~Truthy(db) THEN Rejects(NoDB)
        ELSE Requests([path |-> encodeURIComponent(db) \o <<"/_bulk_docs">>,
              method |-> "POST",
              postData |-> [docs |-> options.docs],
              statusCodes |->
                (201 :> "Created - Document(s) have been created or updated")
                @@ (400 :> "Bad Request - The request provided invalid JSON data")
                @@ (417 :> "Expectation Failed - Occurs when all_or_nothing option set as true and at least one document was rejected by validation function")
                @@ (500 :> "Internal Server Error - Malformed data provided, while it's still valid JSON")])

\* the status table shared by deleteDocument and deleteDesignDocument
RemovedStatusCodes ==
    (200 :> "OK - Document successfully removed")
    @@ (202 :> "Accepted - Request was accepted, but changes are not yet stored on disk")
    @@ (400 :> "Bad Request - Invalid request body or parameters")
    @@ (401 :> "Unauthorized - Write privilege required")
    @@ (404 :> "Not Found - Specified database or document ID doesn't exist")
    @@ (409 :> "Conflict - Specified revision is not the latest for target document")

deleteDocument(self, options) ==
    LET db == OrElse(options.dbName, self.defaultDatabase)
    IN  IF ~Truthy(db) THEN Rejects(NoDB)
        ELSE Requests([path |-> encodeURIComponent(db) \o <<"/">>
                                 \o encodeURIComponent(options.docId)
                                 \o <<"?rev=">> \o TemplateString(options.rev),
              method |-> "DELETE",
              statusCodes |-> RemovedStatusCodes])

\* count: number = 1
getUuids(self, count) ==
    LET n == IF count = Undefined THEN <<"1">> ELSE count
    IN  Requests([path |-> <<"_uuids?count=">> \o n,
              statusCodes |->
                (200 :> "OK - Request completed successfully")
                @@ (403 :> "Forbidden - Requested more UUIDs than is allowed to retrieve")])

getDesignDocument(self, options) ==
    LET db == OrElse(options.dbName, self.defaultDatabase)
    IN  IF ~Truthy(db) THEN Rejects(NoDB)
        ELSE IF KeysThrow(options.options) THEN Throws("TypeError")
        ELSE Requests([path |-> encodeURIComponent(db) \o <<"/_design/">>
                                 \o encodeURIComponent(options.docId)
                                 \o createQueryString(options.options),
              statusCodes |->
                (200 :> "OK - Request completed successfully")
                @@ (304 :> "Not Modified - Document wasn't modified since specified revision")
                @@ (400 :> "Bad Request - The format of the request or revision was invalid")
                @@ (401 :> "Unauthorized - Read privilege required")
                @@ (404 :> "Not Found - Document not found")])

getDesignDocumentInfo(self, options) ==
    LET db == OrElse(options.dbName, self.defaultDatabase)
    IN  IF ~Truthy(db) THEN Rejects(NoDB)
        ELSE Requests([path |-> encodeURIComponent(db) \o <<"/_design/">>
                                 \o encodeURIComponent(options.docId) \o <<"/_info">>,
              statusCodes |-> (200 :> "OK - Request completed successfully")])

createDesignDocument(self, options) ==
    LET db == OrElse(options.dbName, self.defaultDatabase)
    IN  IF ~Truthy(db) THEN Rejects(NoDB)
        ELSE Requests([path |-> encodeURIComponent(db) \o <<"/_design/">>
                                 \o encodeURIComponent(options.docId),
              method |-> "PUT",
              postData |-> options.doc,
              statusCodes |-> StoredStatusCodes])

deleteDesignDocument(self, options) ==
    LET db == OrElse(options.dbName, self.defaultDatabase)
    IN  IF ~Truthy(db) THEN Rejects(NoDB)
        ELSE Requests([path |-> encodeURIComponent(db) \o <<"/_design/">>
                                 \o encodeURIComponent(options.docId)
                                 \o <<"?rev=">> \o TemplateString(options.rev),
              method |-> "DELETE",
              statusCodes |-> RemovedStatusCodes])

getDocumentView(self, options) ==
    LET db == OrElse(options.dbName, self.defaultDatabase)
    IN  IF ~Truthy(db) THEN Rejects(NoDB)
        ELSE IF KeysThrow(options.options) THEN Throws("TypeError")
        ELSE Requests([path |-> encodeURIComponent(db) \o <<"/_design/">>
                                 \o encodeURIComponent(options.docId) \o <<"/_view/">>
                                 \o encodeURIComponent(options.viewName)
                                 \o createQueryString(options.options),
              statusCodes |-> (200 :> "OK - Request completed successfully")])

getIndexes(self, dbName) ==
    LET db == OrElse(dbName, self.defaultDatabase)
    IN  IF ~Truthy(db) THEN Rejects(NoDB)
        ELSE Requests([path |-> encodeURIComponent(db) \o <<"/_index">>,
              method |-> "GET",
              statusCodes |->
                (200 :> "OK - Success")
                @@ (400 :> "Bad Request - Invalid request")
                @@ (401 :> "Unauthorized - Read permission required")
                @@ (500 :> "Internal Server Error - Execution error")])

createIndex(self, options) ==
    LET db == OrElse(options.dbName, self.defaultDatabase)
    IN  IF ~Truthy(db) THEN Rejects(NoDB)
        ELSE Requests([path |-> encodeURIComponent(db) \o <<"/_index">>,
              method |-> "POST",
              postData |-> [index |-> options.index, name |-> options.name],
              statusCodes |->
                (200 :> "OK - Index created successfully or already exists")
                @@ (400 :> "Bad Request - Invalid request")
                @@ (401 :> "Unauthorized - Admin permission required")
                @@ (500 :> "Internal Server Error - Execution error")])

deleteIndex_NoDbCheck(self, options) ==
    LET db == OrElse(options.dbName, self.defaultDatabase)
    IN  Requests([path |-> encodeURIComponent(db) \o <<"/_index/">>
                             \o encodeURIComponent(options.docId) \o <<"/json/">>
                             \o encodeURIComponent(options.indexName),
              method |-> "DELETE",
              statusCodes |->
                (200 :> "OK - Success")
                @@ (400 :> "Bad Request - Invalid request")
                @@ (401 :> "Unauthorized - Writer permission required")
                @@ (404 :> "Not Found - Index not found")
                @@ (500 :> "Internal Server Error - Execution error")])

deleteIndex(self, options) ==
    LET db == OrElse(options.dbName, self.defaultDatabase)
    IN  IF ~Truthy(db) THEN Rejects(NoDB)
        ELSE Requests([path |-> encodeURIComponent(db) \o <<"/_index/">>
                                 \o encodeURIComponent(options.docId) \o <<"/json/">>
                                 \o encodeURIComponent(options.indexName),
              method |-> "DELETE",
              statusCodes |->
                (200 :> "OK - Success")
                @@ (400 :> "Bad Request - Invalid request")
                @@ (401 :> "Unauthorized - Writer permission required")
                @@ (404 :> "Not Found - Index not found")
                @@ (500 :> "Internal Server Error - Execution error")])

\* --------------------------------------------------- methods of CouchDBAdmin
\* CouchDBAdmin.createDatabase(dbName: string): no default database
Admin_createDatabase(self, dbName) ==
    IF ~MatchesNamePattern(dbName) THEN Rejects(InvalidDBName)
    ELSE Requests([path |-> encodeURIComponent(dbName),
              method |-> "PUT",
              statusCodes |->
                (201 :> "Created - Database created successfully")
                @@ (400 :> "Bad Request - Invalid database name")
                @@ (401 :> "Unauthorized - CouchDB Server Administrator privileges required")
                @@ (412 :> "Precondition Failed - Database already exists")])

\* CouchDBAdmin.copyDocument(dbName, docId, newDocId)
Admin_copyDocument(self, dbName, docId, newDocId) ==
    IF Truthy(docId) /\ Truthy(newDocId)
    THEN Requests([path |-> encodeURIComponent(dbName) \o <<"/">>
                             \o encodeURIComponent(docId),
              method |-> "COPY",
              headers |-> [Destination |-> newDocId],
              statusCodes |-> StoredStatusCodes])
    ELSE Rejects(InvalidIds)

\* CouchDBAdmin.createDocument takes positional arguments and has no default
\* database
Admin_createDocument(self, dbName, doc, docId) ==
    IF Truthy(docId)
    THEN Requests([path |-> encodeURIComponent(dbName) \o <<"/">>
                             \o encodeURIComponent(docId),
              method |-> "PUT",
              postData |-> doc,
              headers |-> [k \in {"content-type"} |-> <<"application/json">>],
              statusCodes |-> StoredStatusCodes])
    ELSE Requests([path |-> encodeURIComponent(dbName),
              method |-> "POST",
              postData |-> doc,
              statusCodes |-> PostedStatusCodes])

\* ------------------------------------------------------------- call records
\* a promise that was never created
NoPromise == [state |-> "none", value |-> NoValue, settles |-> 0]

NoCall ==
    [method |-> "", args |-> NoValue, sync |-> "none", thrown |-> NoValue,
     kind |-> "none", options |-> NoValue, requestOptions |-> NoValue,
     startTime |-> 0, endTime |-> 0, requestsBefore |-> 0, logsBefore |-> 0,
     transport |-> "none", outcome |-> NoValue,
     gateway |-> NoPromise, result |-> NoPromise,
     uncaught |-> FALSE, log |-> NoValue, loggedWhile |-> "none"]

NoProbe == [statusCodes |-> NoTable, status |-> 0, message |-> "", applied |-> FALSE]

NoQuery == [cls |-> "", queryObj |-> <<>>, composed |-> <<>>, applied |-> FALSE]

\* the handlers checkDatabaseExists and checkDocumentExists chain on the
\* gateway promise g: then resolve(true); catch resolve(false) on a 404
settleExistence_NoTranslation(g) ==
    IF g.state = "resolved" THEN resolve(Pending, [bool |-> TRUE])
    ELSE IF g.state = "rejected" THEN reject(Pending, g.value)
    ELSE Pending

settleExistence(g) ==
    IF g.state = "resolved" THEN resolve(Pending, [bool |-> TRUE])
    ELSE IF g.state = "rejected"
    THEN IF /\ Has(g.value, "error")
            /\ Has(g.value.error, "statusCode")
            /\ g.value.error.statusCode = 404
         THEN resolve(Pending, [bool |-> FALSE])
         ELSE reject(Pending, g.value)
    ELSE Pending

resultOf_Wraps(kind, g) ==
    IF kind = "exists" THEN settleExistence(g)
    ELSE IF g.state = "rejected" THEN [g EXCEPT !.value = [cause |-> g.value]]
    ELSE g

\* the promise the public method returned, given the gateway promise g
resultOf(kind, g) == IF kind = "exists" THEN settleExistence(g) ELSE g

\* CouchDb.request up to the return: the executor invokes the transport; an
\* exception it throws there rejects the new promise with that exception
startRequest(self, c, options, t, transportThrows) ==
    LET g == IF transportThrows THEN reject(Pending, ThrownByTransport) ELSE Pending
    IN  [c EXCEPT
          !.options = options,
          !.requestOptions = buildRequestOptions(self, options),
          !.startTime = t,
          !.endTime = t,
          !.transport = IF transportThrows THEN "threw" ELSE "pending",
          !.outcome = IF transportThrows THEN ThrownByTransport ELSE NoValue,
          !.gateway = g,
          !.result = resultOf(c.kind, g)]

onFulfilled_FullResponse(self, c, response, t) ==
    LET g == resolve(c.gateway, response)
    IN  [c EXCEPT
          !.transport = "resolved",
          !.outcome = response,
          !.endTime = t,
          !.log = IF self.logging
                  THEN [statusCode |-> response.statusCode,
                        message |-> statusCode(TableOf(c.options), response.statusCode),
                        body |-> response.body,
                        duration |-> t - c.startTime]
                  ELSE NoValue,
          !.loggedWhile = IF self.logging THEN c.gateway.state ELSE "none",
          !.gateway = g,
          !.result = resultOf(c.kind, g)]

onFulfilled_AlwaysLogs(self, c, response, t) ==
    LET g == resolve(c.gateway, response.body)
    IN  [c EXCEPT
          !.transport = "resolved",
          !.outcome = response,
          !.endTime = t,
          !.log = [statusCode |-> response.statusCode,
                   message |-> statusCode(TableOf(c.options), response.statusCode),
                   body |-> response.body,
                   duration |-> t - c.startTime],
          !.loggedWhile = c.gateway.state,
          !.gateway = g,
          !.result = resultOf(c.kind, g)]

\* the .then callback of CouchDb.request: console.info runs, when logging is
\* on, before resolve does; loggedWhile keeps the state the promise was in
\* when the record was written
onFulfilled(self, c, response, t) ==
    LET g == resolve(c.gateway, response.body)
    IN  [c EXCEPT
          !.transport = "resolved",
          !.outcome = response,
          !.endTime = t,
          !.log = IF self.logging
                  THEN [statusCode |-> response.statusCode,
                        message |-> statusCode(TableOf(c.options), response.statusCode),
                        body |-> response.body,
                        duration |-> t - c.startTime]
                  ELSE NoValue,
          !.loggedWhile = IF self.logging THEN c.gateway.state ELSE "none",
          !.gateway = g,
          !.result = resultOf(c.kind, g)]

onRejected_StatusFromTable(self, c, error, t) ==
    LET message == statusCode(TableOf(c.options), StatusOf(error))
        g == IF Nullish(error) THEN c.gateway
             ELSE reject(c.gateway,
                         [error |-> error,
                          status |-> IF message = "unknown status"
                                     THEN 500 ELSE StatusOf(error),
                          message |-> message,
                          duration |-> t - c.startTime])
    IN  [c EXCEPT
          !.transport = "rejected",
          !.outcome = error,
          !.endTime = t,
          !.uncaught = Nullish(error),
          !.gateway = g,
          !.result = resultOf(c.kind, g)]

\* the .catch callback of CouchDb.request: error.statusCode of null or
\* undefined throws inside the callback, and nothing catches that
onRejected(self, c, error, t) ==
    LET g == IF Nullish(error) THEN c.gateway
             ELSE reject(c.gateway,
                         [error |-> error,
                          status |-> IF StatusOf(error) \in {undefinedStatus, 0}
                                     THEN 500 ELSE StatusOf(error),
                          message |-> statusCode(TableOf(c.options), StatusOf(error)),
                          duration |-> t - c.startTime])
    IN  [c EXCEPT
          !.transport = "rejected",
          !.outcome = error,
          !.endTime = t,
          !.uncaught = Nullish(error),
          !.gateway = g,
          !.result = resultOf(c.kind, g)]

\* ------------------------------------------------------------------- inputs
\* database names a caller passes (or leaves out)
DbArgs == {Undefined, <<>>, <<"a", "$">>}

\* database names handed to createDatabase
DbNames == {Undefined} \cup StringsUpTo(MaxNameLen)

\* ids of documents, views and indexes
Ids == {<<"a", "$">>}

\* ids where the code tests for a missing one
OptionalIds == {Undefined, <<>>} \cup Ids

Revs == {<<"1", "$">>}

\* the second argument the README gives createDatabase
CreateOptions == {UndefinedObject, [revisionLimit |-> 2]}

Docs == {[doc |-> "d"]}

\* the `options` query mapping of the read methods
QueryObjects ==
    {UndefinedObject, <<>>,
     [keys |-> Arr(<< <<"a">>, <<"T">> >>), rev |-> Str(<<"1">>)]}

\* per-call override tables and statuses for the status-message lookup
OverrideCodes == {404, 500, 999}

OverrideMessages == {"", "custom"}

OverrideTables == UNION {[D -> OverrideMessages] : D \in SUBSET OverrideCodes}

ProbeStatuses == OverrideCodes \cup {200, undefinedStatus}

\* -------------------------------------------------------------------- steps
Init ==
    /\ \E o \in ConnectionOptions :
          \/ /\ client = CouchDb(o)
             /\ connection = [before |-> o, after |-> CouchDb_options(o)]
          \/ /\ client = CouchDBAdmin(o)
             /\ connection = [before |-> o, after |-> CouchDBAdmin_options(o)]
    /\ call = NoCall
    /\ now = 0
    /\ nCalls = 0
    /\ nGatewayCalls = 0
    /\ nRequests = 0
    /\ nLogs = 0
    /\ probe = NoProbe
    /\ query = NoQuery
    /\ calls = <<>>

\* Date.now() moves on
Tick ==
    /\ now < MaxTime
    /\ now' = now + 1
    /\ UNCHANGED <<client, connection, call, nCalls, nGatewayCalls, nRequests, nLogs, probe, query, calls>>

\* database names a caller assigns to the public field defaultDatabase
AssignedDatabases == {<<"a">>}

\* couchDb.defaultDatabase = dbName, between two calls: the field is declared
\* public
SetDefaultDatabase ==
    /\ client.cls = "CouchDb"
    /\ call = NoCall
    /\ \E dbName \in AssignedDatabases :
          /\ client.defaultDatabase # dbName
          /\ client' = [client EXCEPT !.defaultDatabase = dbName]
    /\ UNCHANGED <<connection, call, now, nCalls, nGatewayCalls, nRequests, nLogs, probe, query, calls>>

Invoke_StoresDatabase(cls, method, args, does) ==
    /\ client.cls = cls
    /\ nCalls < MaxCalls
    /\ call = NoCall
    /\ nCalls' = nCalls + 1
    /\ LET c == [NoCall EXCEPT !.method = method, !.args = args, !.kind = does.kind,
                               !.requestsBefore = nRequests, !.logsBefore = nLogs]
       IN  CASE does.kind = "throw" ->
                  /\ call' = [c EXCEPT !.sync = "threw", !.thrown = does.error]
                  /\ UNCHANGED <<nGatewayCalls, nRequests>>
             [] does.kind = "reject" ->
                  /\ call' = [c EXCEPT !.sync = "returned",
                                       !.result = PromiseReject(does.reason)]
                  /\ UNCHANGED <<nGatewayCalls, nRequests>>
             [] OTHER ->
                  /\ \E transportThrows \in BOOLEAN :
                        call' = startRequest(client, [c EXCEPT !.sync = "returned"],
                                             does.options, now, transportThrows)
                  /\ nGatewayCalls' = nGatewayCalls + 1
                  /\ nRequests' = nRequests + 1
    /\ client' = IF Has(args, "dbName") /\ Truthy(args.dbName)
                 THEN [client EXCEPT !.defaultDatabase = args.dbName] ELSE client
    /\ UNCHANGED <<connection, now, nLogs, probe, query, calls>>

\* a caller invokes a public method of class cls; `does` is what the method's
\* code does with the arguments, up to its return
Invoke(cls, method, args, does) ==
    /\ client.cls = cls
    /\ nCalls < MaxCalls
    /\ call = NoCall
    /\ nCalls' = nCalls + 1
    /\ LET c == [NoCall EXCEPT !.method = method, !.args = args, !.kind = does.kind,
                               !.requestsBefore = nRequests, !.logsBefore = nLogs]
       IN  CASE does.kind = "throw" ->
                  /\ call' = [c EXCEPT !.sync = "threw", !.thrown = does.error]
                  /\ UNCHANGED <<nGatewayCalls, nRequests>>
             [] does.kind = "reject" ->
                  /\ call' = [c EXCEPT !.sync = "returned",
                                       !.result = PromiseReject(does.reason)]
                  /\ UNCHANGED <<nGatewayCalls, nRequests>>
             [] OTHER ->
                  /\ \E transportThrows \in BOOLEAN :
                        call' = startRequest(client, [c EXCEPT !.sync = "returned"],
                                             does.options, now, transportThrows)
                  /\ nGatewayCalls' = nGatewayCalls + 1
                  /\ nRequests' = nRequests + 1
    /\ UNCHANGED <<client, connection, now, nLogs, probe, query, calls>>

\* the caller lets go of a call that has run its course
Release ==
    /\ call.sync # "none"
    /\ call.transport # "pending"
    /\ call' = NoCall
    /\ UNCHANGED <<client, connection, now, nCalls, nGatewayCalls, nRequests, nLogs, probe, query, calls>>

\* the transport resolves its promise with a response
TransportResponds ==
    /\ call.transport = "pending"
    /\ \E response \in Responses :
          call' = onFulfilled(client, call, response, now)
    /\ nLogs' = IF call'.log # NoValue THEN nLogs + 1 ELSE nLogs
    /\ UNCHANGED <<client, connection, now, nCalls, nGatewayCalls, nRequests, probe, query, calls>>

TransportFails_Retries ==
    /\ call.transport = "pending"
    /\ \E error \in Errors :
          \/ call' = onRejected(client, call, error, now) /\ UNCHANGED nRequests
          \/ UNCHANGED call /\ nRequests' = nRequests + 1
    /\ UNCHANGED <<client, connection, now, nCalls, nGatewayCalls, nLogs, probe, query, calls>>

\* the transport rejects its promise
TransportFails ==
    /\ call.transport = "pending"
    /\ \E error \in Errors :
          call' = onRejected(client, call, error, now)
    /\ UNCHANGED <<client, connection, now, nCalls, nGatewayCalls, nRequests, nLogs, probe, query, calls>>

GetInfo == Invoke("CouchDb", "getInfo", NoValue, getInfo(client))

GetDatabases == Invoke("CouchDb", "getDatabases", NoValue, getDatabases(client))

GetDatabase ==
    \E dbName \in DbArgs :
        Invoke("CouchDb", "getDatabase", [dbName |-> dbName], getDatabase(client, dbName))

\* createDatabase is declared with the one parameter dbName; a second
\* argument, as in createDatabase('testDB', { revisionLimit: 2 }), is passed
\* by the caller and never read
CreateDatabase ==
    \E dbName \in DbNames, options \in CreateOptions :
        /\ options # UndefinedObject => dbName = <<"a">>
        /\ Invoke("CouchDb", "createDatabase", [dbName |-> dbName, options |-> options],
                  createDatabase(client, dbName))

CheckDatabaseExists ==
    \E dbName \in DbArgs :
        Invoke("CouchDb", "checkDatabaseExists", [dbName |-> dbName],
               checkDatabaseExists(client, dbName))

DeleteDatabase ==
    \E dbName \in DbArgs :
        Invoke("CouchDb", "deleteDatabase", [dbName |-> dbName], deleteDatabase(client, dbName))

UpdateDatabaseSecurity ==
    \E dbName \in DbArgs :
        LET options == [dbName |-> dbName, admins |-> [names |-> "n"], members |-> [names |-> "m"]]
        IN  Invoke("CouchDb", "updateDatabaseSecurity", options,
                   updateDatabaseSecurity(client, options))

CreateUser ==
    \E roles \in {Undefined, <<>>, <<"r">>} :
        LET options == [username |-> <<"a">>, password |-> <<"1">>, roles |-> roles]
        IN  Invoke("CouchDb", "createUser", options, createUser(client, options))

FindDocuments ==
    \E dbName \in DbArgs :
        LET options == [dbName |-> dbName, findOptions |-> [selector |-> "s"]]
        IN  Invoke("CouchDb", "findDocuments", options, findDocuments(client, options))

GetDocuments ==
    \E dbName \in DbArgs, q \in QueryObjects :
        LET options == [dbName |-> dbName, options |-> q]
        IN  Invoke("CouchDb", "getDocuments", options, getDocuments(client, options))

GetDocument ==
    \E dbName \in DbArgs, docId \in Ids, q \in QueryObjects :
        LET options == [dbName |-> dbName, docId |-> docId, options |-> q]
        IN  Invoke("CouchDb", "getDocument", options, getDocument(client, options))

CheckDocumentExists ==
    \E dbName \in DbArgs, docId \in Ids :
        LET options == [dbName |-> dbName, docId |-> docId]
        IN  Invoke("CouchDb", "checkDocumentExists", options,
                   checkDocumentExists(client, options))

CopyDocument ==
    \E dbName \in DbArgs, docId \in OptionalIds, newDocId \in OptionalIds :
        LET options == [dbName |-> dbName, docId |-> docId, newDocId |-> newDocId]
        IN  Invoke("CouchDb", "copyDocument", options, copyDocument(client, options))

CreateDocument ==
    \E dbName \in DbArgs, docId \in OptionalIds, doc \in Docs :
        LET options == [dbName |-> dbName, docId |-> docId, doc |-> doc]
        IN  Invoke("CouchDb", "createDocument", options, createDocument(client, options))

CreateDocuments ==
    \E dbName \in DbArgs :
        LET options == [dbName |-> dbName, docs |-> <<[doc |-> "d"]>>]
        IN  Invoke("CouchDb", "createDocuments", options, createDocuments(client, options))

DeleteDocument ==
    \E dbName \in DbArgs, docId \in Ids, rev \in Revs :
        LET options == [dbName |-> dbName, docId |-> docId, rev |-> rev]
        IN  Invoke("CouchDb", "deleteDocument", options, deleteDocument(client, options))

GetUuids ==
    \E count \in {Undefined, <<"1">>} :
        Invoke("CouchDb", "getUuids", [count |-> count], getUuids(client, count))

GetDesignDocument ==
    \E dbName \in DbArgs, docId \in Ids, q \in QueryObjects :
        LET options == [dbName |-> dbName, docId |-> docId, options |-> q]
        IN  Invoke("CouchDb", "getDesignDocument", options, getDesignDocument(client, options))

GetDesignDocumentInfo ==
    \E dbName \in DbArgs, docId \in Ids :
        LET options == [dbName |-> dbName, docId |-> docId]
        IN  Invoke("CouchDb", "getDesignDocumentInfo", options,
                   getDesignDocumentInfo(client, options))

CreateDesignDocument ==
    \E dbName \in DbArgs, docId \in Ids, doc \in Docs :
        LET options == [dbName |-> dbName, docId |-> docId, doc |-> doc]
        IN  Invoke("CouchDb", "createDesignDocument", options,
                   createDesignDocument(client, options))

DeleteDesignDocument ==
    \E dbName \in DbArgs, docId \in Ids, rev \in Revs :
        LET options == [dbName |-> dbName, docId |-> docId, rev |-> rev]
        IN  Invoke("CouchDb", "deleteDesignDocument", options,
                   deleteDesignDocument(client, options))

GetDocumentView ==
    \E dbName \in DbArgs, docId \in Ids, q \in QueryObjects :
        LET options == [dbName |-> dbName, docId |-> docId, viewName |-> <<"a">>,
                        options |-> q]
        IN  Invoke("CouchDb", "getDocumentView", options, getDocumentView(client, options))

GetIndexes ==
    \E dbName \in DbArgs :
        Invoke("CouchDb", "getIndexes", [dbName |-> dbName], getIndexes(client, dbName))

CreateIndex ==
    \E dbName \in DbArgs :
        LET options == [dbName |-> dbName, index |-> [fields |-> "f"], name |-> <<"a">>]
        IN  Invoke("CouchDb", "createIndex", options, createIndex(client, options))

DeleteIndex ==
    \E dbName \in DbArgs, docId \in Ids :
        LET options == [dbName |-> dbName, docId |-> docId, indexName |-> <<"a">>]
        IN  Invoke("CouchDb", "deleteIndex", options, deleteIndex(client, options))

AdminCreateDatabase ==
    \E dbName \in StringsUpTo(MaxNameLen) :
        Invoke("CouchDBAdmin", "createDatabase", [dbName |-> dbName],
               Admin_createDatabase(client, dbName))

AdminCopyDocument ==
    \E dbName \in DbArgs, docId \in OptionalIds, newDocId \in OptionalIds :
        Invoke("CouchDBAdmin", "copyDocument",
               [dbName |-> dbName, docId |-> docId, newDocId |-> newDocId],
               Admin_copyDocument(client, dbName, docId, newDocId))

AdminCreateDocument ==
    \E docId \in OptionalIds, doc \in Docs :
        LET dbName == <<"a", "$">>
        IN  Invoke("CouchDBAdmin", "createDocument",
                   [dbName |-> dbName, docId |-> docId, doc |-> doc],
                   Admin_createDocument(client, dbName, doc, docId))

Next ==
    \/ Tick
    \/ SetDefaultDatabase
    \/ Release
    \/ TransportResponds
    \/ TransportFails
    \/ GetInfo
    \/ GetDatabases
    \/ GetDatabase
    \/ CreateDatabase
    \/ CheckDatabaseExists
    \/ DeleteDatabase
    \/ UpdateDatabaseSecurity
    \/ CreateUser
    \/ FindDocuments
    \/ GetDocuments
    \/ GetDocument
    \/ CheckDocumentExists
    \/ CopyDocument
    \/ CreateDocument
    \/ CreateDocuments
    \/ DeleteDocument
    \/ GetUuids
    \/ GetDesignDocument
    \/ GetDesignDocumentInfo
    \/ CreateDesignDocument
    \/ DeleteDesignDocument
    \/ GetDocumentView
    \/ GetIndexes
    \/ CreateIndex
    \/ DeleteIndex
    \/ AdminCreateDatabase
    \/ AdminCopyDocument
    \/ AdminCreateDocument

Spec == Init /\ [][Next]_vars

\* ------------------------------------------- the status-message lookup alone
InitStatus ==
    /\ client = CouchDb(<<>>)
    /\ connection = [before |-> <<>>, after |-> CouchDb_options(<<>>)]
    /\ call = NoCall
    /\ now = 0
    /\ nCalls = 0
    /\ nGatewayCalls = 0
    /\ nRequests = 0
    /\ nLogs = 0
    /\ probe \in [statusCodes : OverrideTables, status : ProbeStatuses,
                  message : {""}, applied : {FALSE}]
    /\ query = NoQuery
    /\ calls = <<>>

\* this.statusCode(statusCodes, status)
Lookup ==
    /\ ~probe.applied
    /\ probe' = [probe EXCEPT !.message = statusCode(probe.statusCodes, probe.status),
                              !.applied = TRUE]
    /\ UNCHANGED <<client, connection, call, now, nCalls, nGatewayCalls, nRequests, nLogs, query, calls>>

SpecStatus == InitStatus /\ [][Lookup]_vars

\* ---------------------------------------- the query-string composition alone
\* the values a caller gives each query parameter
QueryValues ==
    [k \in {"conflicts", "key", "keys", "rev"} |->
        CASE k = "conflicts" -> {Bool(TRUE), UndefinedValue}
          [] k = "key" -> {Str(<<>>), Str(<<"a", "&">>)}
          [] k = "keys" -> {Arr(<< <<"a">> >>), Arr(<< <<"a">>, <<"T", "$">> >>)}
          [] k = "rev" -> {Str(<<"1", "=">>), UndefinedValue}]

\* the query mappings a caller passes
QueryMappings ==
    UNION { {f \in [D -> UNION {QueryValues[k] : k \in D}] :
                \A k \in D : f[k] \in QueryValues[k]} :
            D \in SUBSET DOMAIN QueryValues }

InitQuery ==
    /\ client = CouchDb(<<>>)
    /\ connection = [before |-> <<>>, after |-> CouchDb_options(<<>>)]
    /\ call = NoCall
    /\ now = 0
    /\ nCalls = 0
    /\ nGatewayCalls = 0
    /\ nRequests = 0
    /\ nLogs = 0
    /\ probe = NoProbe
    /\ query \in [cls : {"CouchDb", "CouchDBAdmin"}, queryObj : QueryMappings,
                  composed : {<<>>}, applied : {FALSE}]
    /\ calls = <<>>

\* this.createQueryString(queryObj)
Compose ==
    /\ ~query.applied
    /\ query' = [query EXCEPT
                   !.composed = IF query.cls = "CouchDb"
                                THEN createQueryString(query.queryObj)
                                ELSE Admin_createQueryString(query.queryObj),
                   !.applied = TRUE]
    /\ UNCHANGED <<client, connection, call, now, nCalls, nGatewayCalls, nRequests, nLogs, probe, calls>>

SpecQuery == InitQuery /\ [][Compose]_vars

\* ------------------------------------------------- several calls in flight
Slots == 1..MaxInFlight

\* the calls the concurrent callers make
ConcurrentCalls ==
    { [method |-> "getDatabases", does |-> getDatabases(client)],
      [method |-> "getDatabase", does |-> getDatabase(client, <<"a", "$">>)] }

\* what the transport rejects the concurrent calls with
ConcurrentErrors ==
    { [name |-> "StatusCodeError", statusCode |-> 404], [name |-> "null"] }

InitConcurrent ==
    /\ client = CouchDb([logging |-> TRUE])
    /\ connection = [before |-> [logging |-> TRUE],
                     after |-> CouchDb_options([logging |-> TRUE])]
    /\ call = NoCall
    /\ now = 0
    /\ nCalls = 0
    /\ nGatewayCalls = 0
    /\ nRequests = 0
    /\ nLogs = 0
    /\ probe = NoProbe
    /\ query = NoQuery
    /\ calls = [i \in Slots |-> NoCall]

\* a caller invokes a method while other calls may be in flight: the method
\* runs up to its return, the transport is invoked, the promise is pending
StartConcurrent ==
    /\ \E i \in Slots, m \in ConcurrentCalls, transportThrows \in BOOLEAN :
          /\ calls[i] = NoCall
          /\ calls' = [calls EXCEPT ![i] =
                startRequest(client,
                             [NoCall EXCEPT !.method = m.method, !.kind = m.does.kind,
                                            !.sync = "returned"],
                             m.does.options, now, transportThrows)]
    /\ nCalls' = nCalls + 1
    /\ nGatewayCalls' = nGatewayCalls + 1
    /\ nRequests' = nRequests + 1
    /\ UNCHANGED <<client, connection, call, now, nLogs, probe, query>>

\* the transport resolves the promise of one of the calls in flight
RespondConcurrent ==
    /\ \E i \in Slots, response \in Responses :
          /\ calls[i].transport = "pending"
          /\ calls' = [calls EXCEPT ![i] = onFulfilled(client, calls[i], response, now)]
          /\ nLogs' = IF calls'[i].log # NoValue THEN nLogs + 1 ELSE nLogs
    /\ UNCHANGED <<client, connection, call, now, nCalls, nGatewayCalls, nRequests, probe, query>>

\* the transport rejects the promise of one of the calls in flight
FailConcurrent ==
    /\ \E i \in Slots, error \in ConcurrentErrors :
          /\ calls[i].transport = "pending"
          /\ calls' = [calls EXCEPT ![i] = onRejected(client, calls[i], error, now)]
    /\ UNCHANGED <<client, connection, call, now, nCalls, nGatewayCalls, nRequests, nLogs,
                   probe, query>>

NextConcurrent ==
    \/ Tick
    \/ StartConcurrent
    \/ RespondConcurrent
    \/ FailConcurrent

SpecConcurrent == InitConcurrent /\ [][NextConcurrent]_vars

\* ------------------------------------ two calls that differ in their tables
\* the tables the two calls carry
PairTables == {NoTable, (404 :> "custom"), (500 :> "custom") @@ (999 :> "custom")}

\* the calls made twice
PairCalls ==
    { [method |-> "getDatabase", does |-> getDatabase(client, <<"a", "$">>)],
      [method |-> "checkDatabaseExists",
       does |-> checkDatabaseExists(client, <<"a", "$">>)] }

InitTables ==
    /\ client = CouchDb(<<>>)
    /\ connection = [before |-> <<>>, after |-> CouchDb_options(<<>>)]
    /\ call = NoCall
    /\ now = 0
    /\ nCalls = 0
    /\ nGatewayCalls = 0
    /\ nRequests = 0
    /\ nLogs = 0
    /\ probe = NoProbe
    /\ query = NoQuery
    /\ calls = <<NoCall, NoCall>>

\* this.request(options) twice, with descriptors that differ in statusCodes
\* only
StartPair ==
    /\ calls = <<NoCall, NoCall>>
    /\ \E m \in PairCalls, t1 \in PairTables, t2 \in PairTables :
          LET c == [NoCall EXCEPT !.method = m.method, !.kind = m.does.kind,
                                  !.sync = "returned"]
              started(t) == startRequest(client, c,
                                         [m.does.options EXCEPT !.statusCodes = t],
                                         now, FALSE)
          IN  calls' = <<started(t1), started(t2)>>
    /\ nCalls' = nCalls + 2
    /\ nGatewayCalls' = nGatewayCalls + 2
    /\ nRequests' = nRequests + 2
    /\ UNCHANGED <<client, connection, call, now, nLogs, probe, query>>

\* the transport resolves both promises with the same response
RespondPair ==
    /\ calls[1].transport = "pending"
    /\ \E response \in Responses :
          calls' = <<onFulfilled(client, calls[1], response, now),
                     onFulfilled(client, calls[2], response, now)>>
    /\ UNCHANGED <<client, connection, call, now, nCalls, nGatewayCalls, nRequests, nLogs,
                   probe, query>>

\* the transport rejects both promises with the same error
FailPair ==
    /\ calls[1].transport = "pending"
    /\ \E error \in Errors :
          calls' = <<onRejected(client, calls[1], error, now),
                     onRejected(client, calls[2], error, now)>>
    /\ UNCHANGED <<client, connection, call, now, nCalls, nGatewayCalls, nRequests, nLogs,
                   probe, query>>

NextTables ==
    \/ Tick
    \/ StartPair
    \/ RespondPair
    \/ FailPair

SpecTables == InitTables /\ [][NextTables]_vars

\* ------------------------------- two clients that differ in logging only
\* what console.info throws when the record cannot be written
ThrownByLog == [name |-> "Error"]

\* the .then callback followed by the .catch chained on it: an exception of
\* console.info leaves the .then callback before resolve is called, and the
\* .catch callback receives it as its error
onFulfilledLogging(self, c, response, t, logThrows) ==
    IF self.logging /\ logThrows
    THEN [onRejected(self, c, ThrownByLog, t) EXCEPT
            !.transport = "resolved", !.outcome = response]
    ELSE onFulfilled(self, c, response, t)

\* the same client with logging enabled
LoggingClient == [client EXCEPT !.logging = TRUE]

InitLogging ==
    /\ client = CouchDb(<<>>)
    /\ connection = [before |-> <<>>, after |-> CouchDb_options(<<>>)]
    /\ call = NoCall
    /\ now = 0
    /\ nCalls = 0
    /\ nGatewayCalls = 0
    /\ nRequests = 0
    /\ nLogs = 0
    /\ probe = NoProbe
    /\ query = NoQuery
    /\ calls = <<NoCall, NoCall>>

\* this.request(options) with the same descriptor on both clients
StartLogging ==
    /\ calls = <<NoCall, NoCall>>
    /\ \E m \in PairCalls, table \in PairTables :
          LET c == [NoCall EXCEPT !.method = m.method, !.kind = m.does.kind,
                                  !.sync = "returned"]
              started(self) == startRequest(self, c,
                                            [m.does.options EXCEPT !.statusCodes = table],
                                            now, FALSE)
          IN  calls' = <<started(client), started(LoggingClient)>>
    /\ nCalls' = nCalls + 2
    /\ nGatewayCalls' = nGatewayCalls + 2
    /\ nRequests' = nRequests + 2
    /\ UNCHANGED <<client, connection, call, now, nLogs, probe, query>>

\* the transport resolves both promises with the same response; console.info
\* of the logging client writes its record or throws
RespondLogging ==
    /\ calls[1].transport = "pending"
    /\ \E response \in Responses, logThrows \in BOOLEAN :
          /\ calls' = <<onFulfilledLogging(client, calls[1], response, now, logThrows),
                        onFulfilledLogging(LoggingClient, calls[2], response, now,
                                           logThrows)>>
          /\ nLogs' = IF calls'[2].log # NoValue THEN nLogs + 1 ELSE nLogs
    /\ UNCHANGED <<client, connection, call, now, nCalls, nGatewayCalls, nRequests,
                   probe, query>>

\* the transport rejects both promises with the same error
FailLogging ==
    /\ calls[1].transport = "pending"
    /\ \E error \in Errors :
          calls' = <<onRejected(client, calls[1], error, now),
                     onRejected(LoggingClient, calls[2], error, now)>>
    /\ UNCHANGED <<client, connection, call, now, nCalls, nGatewayCalls, nRequests, nLogs,
                   probe, query>>

NextLogging ==
    \/ Tick
    \/ StartLogging
    \/ RespondLogging
    \/ FailLogging

SpecLogging == InitLogging /\ [][NextLogging]_vars

\* =================================================================== claims
\* the transport was invoked for the call and has delivered its outcome, and
\* the callbacks chained on it have run
TransportDone == call.transport \in {"threw", "resolved", "rejected"}

\* the value has the shape {error, status, message, duration}
IsNormalized(v) == DOMAIN v = {"error", "status", "message", "duration"}

\* the transport rejected with an error object (not null, not undefined)
FailedWithError == call.transport = "rejected" /\ ~Nullish(call.outcome)

\* the normalized error the gateway makes of the error the transport
\* rejected with
NormalizedOutcome ==
    [error |-> call.outcome,
     status |-> IF Has(call.outcome, "statusCode") THEN call.outcome.statusCode ELSE 500,
     message |-> statusCode(TableOf(call.options), StatusOf(call.outcome)),
     duration |-> call.endTime - call.startTime]

\* C1: every call of the gateway settles the promise it returned exactly once,
\* whatever the transport does: once the transport has resolved, rejected
\* (also with null or undefined) or thrown, the promise is resolved or
\* rejected and resolve/reject took effect once.
C1_SettlesExactlyOnce ==
    TransportDone =>
        /\ call.gateway.state \in {"resolved", "rejected"}
        /\ call.gateway.settles = 1

\* C2: on every failure of the transport the gateway rejects with the
\* normalized error: the raw error, its status code or 500, the resolved
\* message and the time elapsed since the start of the call.
C2_FailureRejectsNormalized ==
    call.transport \in {"threw", "rejected"} =>
        /\ call.gateway.state = "rejected"
        /\ call.gateway.value = NormalizedOutcome

\* C3: the resolved message is T2[S] if S is a key of the per-call table T2
\* (whatever string T2[S] is, the empty one included), else T1[S] if S is a
\* key of the built-in table, else "unknown status".
C3_MessageResolution ==
    probe.applied =>
        probe.message =
            IF probe.status \in DOMAIN probe.statusCodes
            THEN probe.statusCodes[probe.status]
            ELSE IF probe.status \in DOMAIN STATUS_CODES
            THEN STATUS_CODES[probe.status]
            ELSE "unknown status"

DbScopedMethods ==
    {"getDatabase", "createDatabase", "checkDatabaseExists", "deleteDatabase",
     "updateDatabaseSecurity", "findDocuments", "getDocuments", "getDocument",
     "checkDocumentExists", "copyDocument", "createDocument", "createDocuments",
     "deleteDocument", "getDesignDocument", "getDesignDocumentInfo",
     "createDesignDocument", "deleteDesignDocument", "getDocumentView",
     "getIndexes", "createIndex", "deleteIndex"}

\* a database-scoped method of CouchDb was called with no database name, on a
\* client without a default database
CalledWithoutDatabase ==
    /\ client.cls = "CouchDb"
    /\ call.method \in DbScopedMethods
    /\ call.args.dbName \in {Undefined, <<>>}
    /\ client.defaultDatabase \in {Undefined, <<>>}

\* C6: a database-scoped method of CouchDb called with no database name
\* (absent or empty) on a client without defaultDatabase returns a rejected
\* promise, does not throw, and invokes the transport not at all: the number
\* of requests is what it was before the call.
C6_NoDatabaseRejects ==
    CalledWithoutDatabase =>
        /\ call.sync = "returned"
        /\ call.result.state = "rejected"
        /\ call.transport = "none"
        /\ nRequests = call.requestsBefore

C6_Witness ==
    /\ CalledWithoutDatabase
    /\ call.method = "deleteIndex"
    /\ call.result.state = "rejected"
    /\ nCalls = 2
    /\ nRequests = 1

\* the database name createDatabase works with
EffectiveName ==
    IF client.cls = "CouchDb"
    THEN OrElse(call.args.dbName, client.defaultDatabase)
    ELSE call.args.dbName

\* the name begins with a lowercase letter, and every following character is
\* a lowercase letter, a digit or one of _ $ ( ) + - /
ValidName(db) ==
    /\ db # Undefined
    /\ Len(db) >= 1
    /\ db[1] = "a"
    /\ \A i \in 2..Len(db) : db[i] \in {"a", "1", "$"}

\* C7: createDatabase issues its PUT request if and only if the effective
\* name is valid; for any other name it rejects with a validation error (the
\* invalid-name error for a name that is there, the no-database error when
\* there is none) and does not invoke the transport.
C7_CreateDatabaseValidates ==
    call.method = "createDatabase" =>
        /\ (call.transport # "none") <=> ValidName(EffectiveName)
        /\ call.transport # "none" =>
              /\ call.requestOptions.method = "PUT"
              /\ nRequests = call.requestsBefore + 1
        /\ ~ValidName(EffectiveName) =>
              /\ call.sync = "returned"
              /\ call.result.state = "rejected"
              /\ call.result.value \in {[str |-> InvalidDBName], [str |-> NoDB]}
              /\ (EffectiveName \notin {Undefined, <<>>} \/ client.cls = "CouchDBAdmin")
                    => call.result.value = [str |-> InvalidDBName]
              /\ nRequests = call.requestsBefore

C7_Witness ==
    /\ call.method = "createDatabase"
    /\ call.args.dbName = <<"T", "a">>
    /\ call.result = PromiseReject([str |-> InvalidDBName])
    /\ call.transport = "none"

\* the database name copyDocument works with
CopyDatabase ==
    IF client.cls = "CouchDb"
    THEN OrElse(call.args.dbName, client.defaultDatabase)
    ELSE call.args.dbName

\* C8: copyDocument with a missing or empty docId or newDocId rejects with a
\* validation error and does not invoke the transport; with both ids and a
\* database name it issues exactly one COPY request to {db}/{docId}.
C8_CopyDocumentValidates ==
    call.method = "copyDocument" =>
        /\ (call.args.docId \in {Undefined, <<>>} \/ call.args.newDocId \in {Undefined, <<>>}) =>
              /\ call.sync = "returned"
              /\ call.result.state = "rejected"
              /\ call.result.value \in {[str |-> InvalidIds], [str |-> NoDB]}
              /\ (CopyDatabase \notin {Undefined, <<>>} \/ client.cls = "CouchDBAdmin")
                    => call.result.value = [str |-> InvalidIds]
              /\ call.transport = "none"
              /\ nRequests = call.requestsBefore
        /\ (/\ call.args.docId \notin {Undefined, <<>>}
            /\ call.args.newDocId \notin {Undefined, <<>>}
            /\ CopyDatabase \notin {Undefined, <<>>}) =>
              /\ call.transport # "none"
              /\ nRequests = call.requestsBefore + 1
              /\ call.requestOptions.method = "COPY"
              /\ call.requestOptions.uri =
                    <<client.host, ":", PortString(client.port), "/">>
                    \o encodeURIComponent(CopyDatabase) \o <<"/">>
                    \o encodeURIComponent(call.args.docId)

C8_Witness ==
    /\ call.method = "copyDocument"
    /\ call.args.docId = <<"a", "$">>
    /\ call.args.newDocId = <<>>
    /\ call.result = PromiseReject([str |-> InvalidIds])
    /\ call.transport = "none"

\* C9: every rejection a caller sees from a public method has the shape
\* {error, status, message, duration}.
C9_RejectionsNormalized ==
    call.result.state = "rejected" => IsNormalized(call.result.value)

\* the headers the descriptor of the call carries
ExtraHeaders == IF Has(call.options, "headers") THEN call.options.headers ELSE <<>>

\* C10: the headers of the outbound request are the baseline headers merged
\* with the headers of the descriptor: every header the caller gave is there
\* with the caller's value, and the baseline headers not overridden are kept.
C10_HeadersMerged ==
    call.transport # "none" =>
        /\ \A h \in DOMAIN ExtraHeaders :
              /\ h \in DOMAIN call.requestOptions.headers
              /\ call.requestOptions.headers[h] = ExtraHeaders[h]
        /\ \A h \in DOMAIN BaselineHeaders \ DOMAIN ExtraHeaders :
              /\ h \in DOMAIN call.requestOptions.headers
              /\ call.requestOptions.headers[h] = BaselineHeaders[h]

\* C11: a copyDocument call with both ids sends a COPY request whose headers
\* contain a Destination header equal to newDocId.
C11_DestinationHeader ==
    (call.method = "copyDocument" /\ call.transport # "none") =>
        /\ call.requestOptions.method = "COPY"
        /\ Has(call.requestOptions.headers, "Destination")
        /\ call.requestOptions.headers["Destination"] = call.args.newDocId

\* C12: a descriptor without a method is sent as GET, and a descriptor without
\* a path is sent to the server root: the uri is host:port/ with nothing after
\* the slash (as in getInfo).
C12_DescriptorDefaults ==
    call.transport # "none" =>
        /\ ~Has(call.options, "method") => call.requestOptions.method = "GET"
        /\ ~Has(call.options, "path") =>
              call.requestOptions.uri = <<client.host, ":", PortString(client.port), "/">>

\* the port the caller asked for: options.port, or 5984 when none was given
RequestedPort ==
    IF Has(connection.before, "port") /\ connection.before.port # 0
    THEN connection.before.port ELSE 5984

\* C13: every client class honours the caller's port: a client constructed
\* with options.port = P sends every request to host:P, one constructed
\* without a port to host:5984.
C13_PortHonoured ==
    call.transport # "none" =>
        SubSeq(call.requestOptions.uri, 1, 3) =
            <<client.host, ":", PortString(RequestedPort)>>

WrittenAs(cls, k, value) ==
    IF cls = "CouchDBAdmin" /\ k \in {"key", "keys", "startkey", "endkey"}
    THEN JSONstringify(value) ELSE value

\* the value carries text into the query string
HasText(w) == ~Has(w, "undef") /\ w # Arr(<<>>)

\* what decoding gives for a written value: text for a string or a boolean,
\* the plain string for an array of one, the array for a longer one
ReadBack(w) ==
    IF Has(w, "bool") THEN Str(<<IF w.bool THEN "true" ELSE "false">>)
    ELSE IF Has(w, "arr") /\ Len(w.arr) = 1 THEN Str(w.arr[1])
    ELSE w

\* the mapping a composed string decodes to
ExpectedDecoding(cls, queryObj) ==
    LET present == {k \in DOMAIN queryObj : HasText(WrittenAs(cls, k, queryObj[k]))}
    IN  [k \in present |-> ReadBack(WrittenAs(cls, k, queryObj[k]))]

QueryMethods == {"getDocuments", "getDocument", "getDesignDocument", "getDocumentView"}

\* the key=value pieces of the query string of a uri
QueryPieces(uri) ==
    LET marks == {i \in 1..Len(uri) : uri[i] = "?"}
    IN  IF marks = {} THEN {}
        ELSE LET first == CHOOSE i \in marks : \A j \in marks : i <= j
                 pieces == split(SubSeq(uri, first + 1, Len(uri)), "&")
             IN  {pieces[i] : i \in 1..Len(pieces)}

\* C15: the query string built by getDocuments, getDocument, getDesignDocument
\* and getDocumentView carries, for each of key, keys, startkey and endkey in
\* the mapping, the encoded JSON literal of the value (one piece, for an array
\* too), and every other key with its value unchanged.
C15_StructuredKeysAsJSON ==
    (call.method \in QueryMethods /\ call.transport # "none") =>
        \A k \in DOMAIN call.args.options :
            IF k \in {"key", "keys", "startkey", "endkey"}
            THEN <<k, "=">> \o encode(JSONstringify(call.args.options[k]).str)
                    \in QueryPieces(call.requestOptions.uri)
            ELSE \A i \in 1..Len(piecesOf(k, call.args.options[k])) :
                    piecesOf(k, call.args.options[k])[i]
                        \in QueryPieces(call.requestOptions.uri)

C17_OneRequestPerInvocation ==
    /\ nRequests = nGatewayCalls
    /\ call.kind \in {"request", "exists"} => nRequests = call.requestsBefore + 1

C17_Witness ==
    /\ call.transport = "rejected"
    /\ call.gateway.state = "rejected"
    /\ call.requestsBefore = 1
    /\ nGatewayCalls = 2
    /\ nRequests = 2

\* C18: for every public method other than the existence checks, when the
\* gateway rejects, the promise of the method rejects with the very value the
\* gateway rejected with (the normalized error the gateway made of the
\* transport's error), not wrapped and not replaced; the one place where a
\* rejection of the gateway does not reach the caller is an existence check
\* turning status 404 into a resolved false.
C18_ErrorsPropagate ==
    call.gateway.state = "rejected" =>
        /\ call.kind = "request" =>
              /\ call.result.state = "rejected"
              /\ call.result.value = call.gateway.value
              /\ call.result.settles = 1
              /\ nRequests = call.requestsBefore + 1
              /\ FailedWithError => call.result.value = NormalizedOutcome
        /\ call.result.state # "rejected" =>
              /\ call.kind = "exists"
              /\ call.gateway.value.status = 404
              /\ call.result = resolve(Pending, [bool |-> FALSE])
        /\ (call.kind = "exists" /\ call.result.state = "rejected") =>
              call.result.value = call.gateway.value

C18_Witness ==
    /\ call.method = "deleteDatabase"
    /\ FailedWithError
    /\ StatusOf(call.outcome) = 404
    /\ call.result.state = "rejected"
    /\ call.result.value = NormalizedOutcome
    /\ call.result.value.message = "Not Found - Database doesn't exist"

\* C19: the connection configuration is fixed at construction: no step of
\* the client or of its caller changes host, port, credentials, the logging
\* flag or defaultDatabase.
C19_ConfigurationFixed == [][client' = client]_vars

\* C19 (amended): host, port, credentials and the logging flag never change,
\* and no public method and no callback of the gateway changes any field of
\* the client; defaultDatabase changes only when the caller assigns the
\* public field, and a call made afterwards works with the assigned value.
C19_MethodsKeepConfiguration ==
    [][/\ client'.host = client.host
       /\ client'.port = client.port
       /\ client'.auth = client.auth
       /\ client'.logging = client.logging
       /\ client'.cls = client.cls
       /\ (call' # call \/ nCalls' # nCalls \/ nRequests' # nRequests) => client' = client
       /\ (call'.sync = "returned" /\ call.sync = "none"
           /\ call'.method = "getDatabase" /\ ~Truthy(call'.args.dbName)
           /\ Truthy(client.defaultDatabase)) =>
              call'.options.path = encodeURIComponent(client.defaultDatabase)]_vars

C19_Witness ==
    /\ client.cls = "CouchDb"
    /\ ~Has(connection.before, "defaultDatabase")
    /\ client.defaultDatabase = <<"a">>
    /\ client.port = 5984
    /\ call.method = "getDatabase"
    /\ call.args.dbName = Undefined
    /\ call.transport = "resolved"
    /\ call.requestOptions.uri = <<"http://127.0.0.1", ":", "5984", "/", "a">>

PairDone ==
    /\ DOMAIN calls = {1, 2}
    /\ calls[1].transport \in {"resolved", "rejected"}
    /\ calls[2].transport \in {"resolved", "rejected"}

\* C21: two gateway calls that differ only in their statusCodes tables and
\* get the same outcome from the transport both resolve with the same value
\* or both reject with the same error, status and duration; only the message
\* may differ.
C21_TablesNotControlFlow ==
    PairDone =>
        /\ calls[1].result.state = calls[2].result.state
        /\ calls[1].gateway.state = calls[2].gateway.state
        /\ calls[1].result.state = "resolved" =>
              calls[1].result.value = calls[2].result.value
        /\ calls[1].result.state = "rejected" =>
              /\ calls[1].result.value.error = calls[2].result.value.error
              /\ calls[1].result.value.status = calls[2].result.value.status
              /\ calls[1].result.value.duration = calls[2].result.value.duration

C21_Witness ==
    /\ PairDone
    /\ calls[1].method = "getDatabase"
    /\ calls[1].options.statusCodes = (404 :> "custom")
    /\ calls[2].options.statusCodes = NoTable
    /\ calls[1].result.state = "rejected"
    /\ calls[1].result.value.status = 404
    /\ calls[1].result.value.message = "custom"
    /\ calls[2].result.value.message = "Not Found"

\* the database name a database-scoped call has to work with: the call-site
\* dbName when it is there and not empty, else the configured default
NameByPrecedence ==
    IF call.args.dbName \notin {Undefined, <<>>}
    THEN call.args.dbName ELSE client.defaultDatabase

\* the path of the uri begins with the encoded name, and the name ends there
PathBeginsWith(uri, name) ==
    /\ Len(uri) >= 4 + Len(name)
    /\ SubSeq(uri, 5, 4 + Len(name)) = name
    /\ Len(uri) > 4 + Len(name) => uri[5 + Len(name)] \notin Alphabet \cup {"%"}

\* C22: for every database-scoped method of CouchDb that issues a request,
\* the request path begins with the call-site dbName when one is given (not
\* empty), also on a client with a defaultDatabase, and with the configured
\* defaultDatabase exactly when the call-site dbName is absent.
C22_NamePrecedence ==
    (/\ client.cls = "CouchDb"
     /\ call.method \in DbScopedMethods
     /\ call.transport # "none") =>
        /\ Truthy(NameByPrecedence)
        /\ PathBeginsWith(call.requestOptions.uri, encodeURIComponent(NameByPrecedence))
        /\ (PathBeginsWith(call.requestOptions.uri, encodeURIComponent(client.defaultDatabase))
            /\ client.defaultDatabase # call.args.dbName)
              => call.args.dbName \in {Undefined, <<>>}

C22_Witness ==
    /\ client.cls = "CouchDb"
    /\ client.defaultDatabase = <<"a">>
    /\ call.method = "getDocument"
    /\ call.args.dbName = <<"a", "$">>
    /\ call.transport = "resolved"
    /\ SubSeq(call.requestOptions.uri, 4, 9) = <<"/", "a", "%", "2", "4", "/">>

\* C23: getDocuments, getDocument, getDesignDocument and getDocumentView,
\* called with a database name available and the options mapping left out,
\* return a promise (they do not throw) and issue exactly one GET request
\* whose path has no query string.
C23_OptionsOmitted ==
    (/\ client.cls = "CouchDb"
     /\ call.method \in QueryMethods
     /\ call.args.options = UndefinedObject
     /\ Truthy(NameByPrecedence)) =>
        /\ call.sync = "returned"
        /\ call.transport # "none"
        /\ nRequests = call.requestsBefore + 1
        /\ call.requestOptions.method = "GET"
        /\ \A i \in 1..Len(call.requestOptions.uri) : call.requestOptions.uri[i] # "?"

\* C24: createUser called with username and password and without roles
\* returns a promise (it does not throw) and issues exactly one POST request
\* to _users whose body has _id 'org.couchdb.user:' followed by the username,
\* name = username and type = 'user'.
C24_RolesOmitted ==
    (call.method = "createUser" /\ call.args.roles = Undefined) =>
        /\ call.sync = "returned"
        /\ call.transport # "none"
        /\ nRequests = call.requestsBefore + 1
        /\ call.requestOptions.method = "POST"
        /\ call.requestOptions.uri =
              <<client.host, ":", PortString(client.port), "/", "_users">>
        /\ call.requestOptions.body._id = <<"org.couchdb.user:">> \o call.args.username
        /\ call.requestOptions.body.name = call.args.username
        /\ call.requestOptions.body.type = "user"

\* the createDocument call of either class that reached the gateway's request
CreatesDocument ==
    /\ call.method = "createDocument"
    /\ \/ client.cls = "CouchDBAdmin"
       \/ Truthy(NameByPrecedence)

\* the database name a createDocument call addresses
CreateDatabaseName ==
    IF client.cls = "CouchDBAdmin" THEN call.args.dbName ELSE NameByPrecedence

\* C25: createDocument issues exactly one request whose body is the document;
\* with a docId the request is a PUT to {db}/{docId}, without one it is a POST
\* to {db}, and never both.
C25_OneCreateRequest ==
    CreatesDocument =>
        LET base == <<client.host, ":", PortString(client.port), "/">>
                        \o encodeURIComponent(CreateDatabaseName)
        IN  /\ call.sync = "returned"
            /\ call.transport # "none"
            /\ nRequests = call.requestsBefore + 1
            /\ call.requestOptions.body = call.args.doc
            /\ IF call.args.docId \notin {Undefined, <<>>}
               THEN /\ call.requestOptions.method = "PUT"
                    /\ call.requestOptions.uri =
                          base \o <<"/">> \o encodeURIComponent(call.args.docId)
               ELSE /\ call.requestOptions.method = "POST"
                    /\ call.requestOptions.uri = base

C25_Witness ==
    /\ client.cls = "CouchDb"
    /\ call.method = "createDocument"
    /\ call.args.docId = <<"a", "$">>
    /\ call.transport = "resolved"
    /\ call.requestOptions.method = "PUT"
    /\ call.requestOptions.body = [doc |-> "d"]
    /\ nRequests = call.requestsBefore + 1

\* C26: createDatabase called with options.revisionLimit issues the create
\* request (PUT {db}) and then a second request that sets the revision limit
\* (PUT {db}/_revs_limit), so that two requests were issued when its promise
\* resolves; called without revisionLimit it issues only the create request.
C26_RevisionLimitSet ==
    (client.cls = "CouchDb" /\ call.method = "createDatabase"
        /\ call.transport # "none") =>
        /\ call.requestOptions.method = "PUT"
        /\ call.args.options = UndefinedObject =>
              nRequests = call.requestsBefore + 1
        /\ (call.args.options # UndefinedObject /\ call.result.state = "resolved") =>
              nRequests = call.requestsBefore + 2

\* C27: in every normalized error the gateway rejects with, the message is
\* the resolved message for the status of the same error; when the underlying
\* error has no status code and status falls back to 500, the message is the
\* entry for 500 (the override of the call if given, else 'Internal Server
\* Error').
C27_MessageMatchesStatus ==
    (call.gateway.state = "rejected" /\ IsNormalized(call.gateway.value)) =>
        call.gateway.value.message =
            statusCode(TableOf(call.options), call.gateway.value.status)

\* the characters encodeURIComponent escapes
Reserved == Alphabet \ Unreserved

\* C28: every caller-supplied component a public method places into the
\* request path is percent-encoded: no reserved character of a database name,
\* document id, view name, index name or of the rev of deleteDocument and
\* deleteDesignDocument reaches the request uri unescaped.
C28_PathComponentsEncoded ==
    call.transport # "none" =>
        /\ \A i \in 1..Len(call.requestOptions.uri) :
              call.requestOptions.uri[i] \notin Reserved
        /\ call.method \in {"deleteDocument", "deleteDesignDocument"} =>
              LET uri == call.requestOptions.uri
                  rev == encodeURIComponent(call.args.rev)
              IN  /\ Len(uri) > Len(rev)
                  /\ SubSeq(uri, Len(uri) - Len(rev), Len(uri)) = <<"?rev=">> \o rev

\* C29: for the same request descriptor and the same transport outcome, the
\* client with logging enabled resolves with the same body, or rejects with
\* the same error, status and message, as the client with logging disabled,
\* also when writing the log record fails.
C29_LoggingKeepsOutcome ==
    PairDone =>
        /\ calls[1].gateway = calls[2].gateway
        /\ calls[1].result = calls[2].result

\* C30: constructing a client never modifies the caller's options object:
\* after new CouchDb(options) or new CouchDBAdmin(options) every field of
\* options (host, port, auth, logging, defaultDatabase) is as it was before
\* the call, supplied or not.
C30_OptionsUntouched ==
    \A k \in {"host", "port", "auth", "logging", "defaultDatabase"} :
        /\ Has(connection.after, k) <=> Has(connection.before, k)
        /\ Has(connection.before, k) => connection.after[k] = connection.before[k]

====
